---- MODULE Spec2Model ----
(***************************************************************************)
(* Project Chimera dashboard (app.py): the Streamlit script that loads the *)
(* configuration, renders the sidebar controls and, when the "Generate New *)
(* Report" button is pressed, drives Collector -> Analyzer -> Forecaster   *)
(* -> Presenter.  One script run is modelled as a sequence of steps, one   *)
(* per collaborator call that returns or raises.                           *)
(***************************************************************************)
EXTENDS Integers, Sequences, FiniteSets, TLC

\* ------------------------------------------------------------------ bounds
\* Topics the operator can type are 0..MaxTopic; 0 is the configured default.
MaxTopic == 1

\* ------------------------------------------------------- program constants
\* The nine names app.py imports from config (lines 18-22).
Settings ==
    {"NEWS_API_KEY", "GNEWS_API_KEY", "TWITTER_BEARER_TOKEN", "SLACK_WEBHOOK_URL",
     "RAW_NEWS_FILE", "ANALYZED_NEWS_FILE", "QUERY_TOPIC",
     "POSITIVE_THRESHOLD", "NEGATIVE_THRESHOLD"}

\* The value of QUERY_TOPIC, the default of the topic text input (line 37).
QUERY_TOPIC == 0

Topics == 0..MaxTopic

\* The options of the forecast-period selectbox, in order (line 38).
PeriodOptions == <<7, 15, 30>>

\* index=0 of the selectbox (line 38), as a 1-based position.
DefaultPeriodIndex == 1

Periods == {PeriodOptions[i] : i \in 1..Len(PeriodOptions)}

\* The order of the four collaborator calls in the button handler.
StageOrder ==
    <<"run_collection", "run_analysis", "run_forecasting", "generate_dashboard_figure">>

\* What run_collection / run_analysis may hand back: the handler tests the
\* value with `not`, so None is as much a failure signal as False.
SuccessValues == {"True", "False", "None"}

\* What run_forecasting may hand back: a forecast, an empty frame, or None.
ForecastValues == {"forecast", "empty", "None"}

\* Exception classes a call may raise; FileNotFoundError is the one the
\* render stage singles out.
Exceptions == {"FileNotFoundError", "RuntimeError"}

\* The enriched dataset file on disk: missing, unreadable as the CSV the
\* render stage expects, as the Analyzer wrote it, or changed since.
FileStates == {"absent", "malformed", "analyzed", "edited"}

VARIABLES
    config,             \* the settings that resolve at startup
    pc,                 \* where the script is
    widgets,            \* the sidebar controls (topic, period, button) are on the page
    triggered,          \* the button returned True in the current script run
    query,              \* value of the topic text input
    forecast_periods,   \* value of the period selectbox
    spinner,            \* the st.spinner block the script is inside (0: none)
    collection_success, \* local of the handler ("unset" before line 45)
    analysis_success,   \* local of the handler ("unset" before line 60)
    forecast_df,        \* local of the handler ("unset" before line 69)
    enrichedFile,       \* the file at ANALYZED_NEWS_FILE
    messages,           \* the elements the current script run put on the page
    calls,              \* the collaborator calls of the current script run
    obs,                \* what the collaborators handed back in the current run
    prev,               \* summary of the last finished triggered run (<<>>: none)
    recording           \* whether finished runs are summarised into prev

vars == <<config, pc, widgets, triggered, query, forecast_periods, spinner,
          collection_success, analysis_success, forecast_df, enrichedFile,
          messages, calls, obs, prev, recording>>

\* ------------------------------------------------------------ page elements
Msg(kind, text, detail) == [kind |-> kind, text |-> text, detail |-> detail]

ConfigErrorMsg      == Msg("error", "Configuration Error", "")
ConfigDetailsMsg    == Msg("error", "Details", "ImportError")
ConfigInfoMsg       == Msg("info", "Ensure config.py and .env are set up", "")
TitleMsg            == Msg("title", "Project Chimera", "")
CollectionFailedMsg == Msg("error", "Failed to collect any articles", "API keys, query term")
CollectionDoneMsg   == Msg("success", "Step 1/4 complete", "")
AnalysisFailedMsg   == Msg("error", "Sentiment analysis failed", "")
AnalysisDoneMsg     == Msg("success", "Step 2/4 complete", "")
ForecastDoneMsg     == Msg("success", "Step 3/4 complete", "")
ChartMsg            == Msg("pyplot", "fig", "")
DashboardDoneMsg    == Msg("success", "Dashboard generated successfully", "")
MissingFileMsg      == Msg("error", "Could not find the analyzed data file", "ANALYZED_NEWS_FILE")
GenericErrorMsg(e)  == Msg("error", "An error occurred while creating the dashboard", e)
PromptMsg           == Msg("info", "Enter a topic and click Generate New Report", "")

Shown(m) == \E i \in 1..Len(messages) : messages[i] = m

ErrorsShown == {i \in 1..Len(messages) : messages[i].kind = "error"}

\* ------------------------------------------------------------------ helpers
\* The names the config module offers for import: a setting that cannot be
\* resolved is not offered.
ConfigModuleDefines == config

\* Variant: SLACK_WEBHOOK_URL left out of the import list.
ConfigLoads_DropsOne == (Settings \ {"SLACK_WEBHOOK_URL"}) \subseteq ConfigModuleDefines

\* `from config import (...)` (lines 18-22) succeeds iff config offers every
\* name; otherwise it raises ImportError.
ConfigLoads == Settings \subseteq ConfigModuleDefines

\* Python truthiness of a collaborator's return value (`if not x`).
Truthy(v) == v = "True"

Running  == {"Collecting", "Analyzing", "Forecasting", "Rendering", "Presenting"}
Finished == {"Done", "Failed", "Crashed"}

Call(fn, args) == [fn |-> fn, args |-> args]

Obs(stage, kind, value) == [stage |-> stage, kind |-> kind, value |-> value]

\* Variant: the Collector is told to write to the enriched dataset path.
CollectorArgs_WrongPath ==
    [query |-> query, output_filepath |-> "ANALYZED_NEWS_FILE",
     newsapi_key |-> "NEWS_API_KEY", gnews_key |-> "GNEWS_API_KEY",
     twitter_token |-> "TWITTER_BEARER_TOKEN"]

CollectorArgs ==
    [query |-> query, output_filepath |-> "RAW_NEWS_FILE",
     newsapi_key |-> "NEWS_API_KEY", gnews_key |-> "GNEWS_API_KEY",
     twitter_token |-> "TWITTER_BEARER_TOKEN"]

AnalyzerArgs == [input |-> "RAW_NEWS_FILE", output |-> "ANALYZED_NEWS_FILE"]

\* Variant: the period passed is the selectbox default, not the selection.
ForecasterArgs_FixedPeriod ==
    [input_filepath |-> "ANALYZED_NEWS_FILE", pos_threshold |-> "POSITIVE_THRESHOLD",
     neg_threshold |-> "NEGATIVE_THRESHOLD", slack_webhook_url |-> "SLACK_WEBHOOK_URL",
     periods |-> PeriodOptions[DefaultPeriodIndex]]

ForecasterArgs ==
    [input_filepath |-> "ANALYZED_NEWS_FILE", pos_threshold |-> "POSITIVE_THRESHOLD",
     neg_threshold |-> "NEGATIVE_THRESHOLD", slack_webhook_url |-> "SLACK_WEBHOOK_URL",
     periods |-> forecast_periods]

\* Variant: the Presenter is handed the configured topic, not the one typed.
PresenterArgs_DefaultTopic(df) ==
    [analyzed_df |-> df, forecast_df |-> forecast_df, query |-> QUERY_TOPIC,
     periods |-> forecast_periods]

PresenterArgs(df) ==
    [analyzed_df |-> df, forecast_df |-> forecast_df, query |-> query,
     periods |-> forecast_periods]

Invoked(fn) == \E i \in 1..Len(calls) : calls[i].fn = fn

TimesInvoked(fn) == Cardinality({i \in 1..Len(calls) : calls[i].fn = fn})

Returned(fn) == \E i \in 1..Len(obs) : obs[i].stage = fn /\ obs[i].kind = "return"

Raised(fn) == \E i \in 1..Len(obs) : obs[i].stage = fn /\ obs[i].kind = "raise"

\* What the last finished triggered run looked like.
Summary ==
    [query |-> query, periods |-> forecast_periods, obs |-> obs, calls |-> calls,
     outcome |-> pc, messages |-> messages]

\* ----------------------------------------------------------------- initial
InitWith(rec) ==
    /\ recording = rec
    /\ config \in SUBSET Settings
    /\ pc = "Boot"
    /\ widgets = FALSE
    /\ triggered = FALSE
    /\ query = QUERY_TOPIC
    /\ forecast_periods = PeriodOptions[DefaultPeriodIndex]
    /\ spinner = 0
    /\ collection_success = "unset"
    /\ analysis_success = "unset"
    /\ forecast_df = "unset"
    /\ enrichedFile \in FileStates
    /\ messages = <<>>
    /\ calls = <<>>
    /\ obs = <<>>
    /\ prev = <<>>

\* A session; runs are not compared with one another.
Init == InitWith(FALSE)

\* A session in which each finished triggered run is kept for comparison.
InitRecording == InitWith(TRUE)

\* ------------------------------------------------------ script start, reruns
Interactive == {"Idle"} \cup Finished

ResetLocals ==
    /\ collection_success' = "unset"
    /\ analysis_success' = "unset"
    /\ forecast_df' = "unset"

\* A rerun replaces the page and the script's namespace; the summary of a
\* triggered run that had finished is kept for comparison with the next one.
RememberRun ==
    /\ prev' = IF recording /\ pc \in Finished THEN <<Summary>> ELSE prev
    /\ UNCHANGED recording

\* Variant: the else branch (98-99) is missing.
NoTriggerRun_NoPrompt ==
    /\ ConfigLoads
    /\ widgets' = TRUE
    /\ triggered' = FALSE
    /\ messages' = <<TitleMsg>>
    /\ spinner' = 0
    /\ calls' = <<>>
    /\ obs' = <<>>
    /\ ResetLocals
    /\ RememberRun
    /\ pc' = "Idle"
    /\ UNCHANGED <<config, enrichedFile>>

\* Lines 32-41 with the button not pressed, then the else branch (98-99).
NoTriggerRun ==
    /\ ConfigLoads
    /\ widgets' = TRUE
    /\ triggered' = FALSE
    /\ messages' = <<TitleMsg, PromptMsg>>
    /\ spinner' = 0
    /\ calls' = <<>>
    /\ obs' = <<>>
    /\ ResetLocals
    /\ RememberRun
    /\ pc' = "Idle"
    /\ UNCHANGED <<config, enrichedFile>>

\* Lines 23-28: the except ImportError block, ending in st.stop().
ConfigFailure ==
    /\ ~ConfigLoads
    /\ messages' = <<ConfigErrorMsg, ConfigDetailsMsg, ConfigInfoMsg>>
    /\ pc' = "ConfigError"
    /\ UNCHANGED <<config, widgets, triggered, query, forecast_periods, spinner,
                   collection_success, analysis_success, forecast_df, enrichedFile,
                   calls, obs, prev, recording>>

\* The first script run of a session: no button can have been pressed yet.
Boot ==
    /\ pc = "Boot"
    /\ \/ NoTriggerRun /\ UNCHANGED <<query, forecast_periods>>
       \/ ConfigFailure

\* The operator types another topic: a rerun with the button not pressed.
EditTopic(t) ==
    /\ pc \in Interactive
    /\ t # query
    /\ query' = t
    /\ NoTriggerRun
    /\ UNCHANGED forecast_periods

\* The operator picks another forecast period: likewise.
SelectPeriod(h) ==
    /\ pc \in Interactive
    /\ h # forecast_periods
    /\ forecast_periods' = h
    /\ NoTriggerRun
    /\ UNCHANGED query

\* Variant: a collection that succeeded in the run before is reused instead
\* of collecting again.
ClickButton_ReusesCollection ==
    /\ pc \in Interactive
    /\ ConfigLoads
    /\ triggered' = TRUE
    /\ messages' = <<TitleMsg>>
    /\ obs' = <<>>
    /\ IF collection_success = "True"
         THEN /\ spinner' = 2
              /\ calls' = <<Call("run_analysis", AnalyzerArgs)>>
              /\ pc' = "Analyzing"
              /\ UNCHANGED collection_success
         ELSE /\ spinner' = 1
              /\ calls' = <<Call("run_collection", CollectorArgs)>>
              /\ pc' = "Collecting"
              /\ collection_success' = "unset"
    /\ analysis_success' = "unset"
    /\ forecast_df' = "unset"
    /\ RememberRun
    /\ UNCHANGED <<config, widgets, query, forecast_periods, enrichedFile>>

\* The operator presses the button: a rerun that enters the handler (line 41)
\* and calls run_collection (lines 44-51).
ClickButton ==
    /\ pc \in Interactive
    /\ ConfigLoads
    /\ triggered' = TRUE
    /\ messages' = <<TitleMsg>>
    /\ spinner' = 1
    /\ calls' = <<Call("run_collection", CollectorArgs)>>
    /\ obs' = <<>>
    /\ ResetLocals
    /\ RememberRun
    /\ pc' = "Collecting"
    /\ UNCHANGED <<config, widgets, query, forecast_periods, enrichedFile>>

\* ------------------------------------------------------------- the pipeline
\* Variant: the exception is caught and reported like a render error.
Propagates_Caught(fn, e) ==
    /\ obs' = Append(obs, Obs(fn, "raise", e))
    /\ messages' = Append(messages, GenericErrorMsg(e))
    /\ spinner' = 0
    /\ pc' = "Failed"
    /\ UNCHANGED <<config, widgets, triggered, query, forecast_periods,
                   collection_success, analysis_success, forecast_df, enrichedFile,
                   calls, prev, recording>>

\* An exception out of run_collection, run_analysis or run_forecasting is
\* caught nowhere in the script: the script run ends there.
Propagates(fn, e) ==
    /\ obs' = Append(obs, Obs(fn, "raise", e))
    /\ spinner' = 0
    /\ pc' = "Crashed"
    /\ UNCHANGED <<config, widgets, triggered, query, forecast_periods,
                   collection_success, analysis_success, forecast_df, enrichedFile,
                   messages, calls, prev, recording>>

\* Variant: st.stop() (line 55) is missing after the collection error.
CollectorReturns_NoStop(v) ==
    /\ pc = "Collecting"
    /\ collection_success' = v
    /\ obs' = Append(obs, Obs("run_collection", "return", v))
    /\ messages' = Append(messages,
                      IF ~Truthy(v) THEN CollectionFailedMsg ELSE CollectionDoneMsg)
    /\ spinner' = 2
    /\ calls' = Append(calls, Call("run_analysis", AnalyzerArgs))
    /\ pc' = "Analyzing"
    /\ UNCHANGED <<config, widgets, triggered, query, forecast_periods,
                   analysis_success, forecast_df, enrichedFile, prev, recording>>

\* Variant: after a successful collection the script goes on with
\* run_forecasting, leaving run_analysis out.
CollectorReturns_SkipsAnalysis(v) ==
    /\ pc = "Collecting"
    /\ collection_success' = v
    /\ obs' = Append(obs, Obs("run_collection", "return", v))
    /\ IF ~Truthy(v)
         THEN /\ messages' = Append(messages, CollectionFailedMsg)
              /\ spinner' = 0
              /\ pc' = "Failed"
              /\ UNCHANGED calls
         ELSE /\ messages' = Append(messages, CollectionDoneMsg)
              /\ spinner' = 3
              /\ calls' = Append(calls, Call("run_forecasting", ForecasterArgs))
              /\ pc' = "Forecasting"
    /\ UNCHANGED <<config, widgets, triggered, query, forecast_periods,
                   analysis_success, forecast_df, enrichedFile, prev, recording>>

\* Lines 45-56: run_collection returns v.
CollectorReturns(v) ==
    /\ pc = "Collecting"
    /\ collection_success' = v
    /\ obs' = Append(obs, Obs("run_collection", "return", v))
    /\ IF ~Truthy(v)
         THEN /\ messages' = Append(messages, CollectionFailedMsg)
              /\ spinner' = 0
              /\ pc' = "Failed"
              /\ UNCHANGED calls
         ELSE /\ messages' = Append(messages, CollectionDoneMsg)
              /\ spinner' = 2
              /\ calls' = Append(calls, Call("run_analysis", AnalyzerArgs))
              /\ pc' = "Analyzing"
    /\ UNCHANGED <<config, widgets, triggered, query, forecast_periods,
                   analysis_success, forecast_df, enrichedFile, prev, recording>>

CollectorRaises(e) ==
    /\ pc = "Collecting"
    /\ Propagates("run_collection", e)

\* The Analyzer persists the enriched dataset when it succeeds.
AnalyzerWrites(v, f) == IF Truthy(v) THEN "analyzed" ELSE f

\* Variant: st.stop() (line 64) is missing after the analysis error.
AnalyzerReturns_NoStop(v) ==
    /\ pc = "Analyzing"
    /\ analysis_success' = v
    /\ enrichedFile' = AnalyzerWrites(v, enrichedFile)
    /\ obs' = Append(obs, Obs("run_analysis", "return", v))
    /\ messages' = Append(messages,
                      IF ~Truthy(v) THEN AnalysisFailedMsg ELSE AnalysisDoneMsg)
    /\ spinner' = 3
    /\ calls' = Append(calls, Call("run_forecasting", ForecasterArgs))
    /\ pc' = "Forecasting"
    /\ UNCHANGED <<config, widgets, triggered, query, forecast_periods,
                   collection_success, forecast_df, prev, recording>>

\* Variant: the analysis failure shows the collection error text.
AnalyzerReturns_WrongMessage(v) ==
    /\ pc = "Analyzing"
    /\ analysis_success' = v
    /\ enrichedFile' = AnalyzerWrites(v, enrichedFile)
    /\ obs' = Append(obs, Obs("run_analysis", "return", v))
    /\ IF ~Truthy(v)
         THEN /\ messages' = Append(messages, CollectionFailedMsg)
              /\ spinner' = 0
              /\ pc' = "Failed"
              /\ UNCHANGED calls
         ELSE /\ messages' = Append(messages, AnalysisDoneMsg)
              /\ spinner' = 3
              /\ calls' = Append(calls, Call("run_forecasting", ForecasterArgs))
              /\ pc' = "Forecasting"
    /\ UNCHANGED <<config, widgets, triggered, query, forecast_periods,
                   collection_success, forecast_df, prev, recording>>

\* Lines 60-69: run_analysis returns v.
AnalyzerReturns(v) ==
    /\ pc = "Analyzing"
    /\ analysis_success' = v
    /\ enrichedFile' = AnalyzerWrites(v, enrichedFile)
    /\ obs' = Append(obs, Obs("run_analysis", "return", v))
    /\ IF ~Truthy(v)
         THEN /\ messages' = Append(messages, AnalysisFailedMsg)
              /\ spinner' = 0
              /\ pc' = "Failed"
              /\ UNCHANGED calls
         ELSE /\ messages' = Append(messages, AnalysisDoneMsg)
              /\ spinner' = 3
              /\ calls' = Append(calls, Call("run_forecasting", ForecasterArgs))
              /\ pc' = "Forecasting"
    /\ UNCHANGED <<config, widgets, triggered, query, forecast_periods,
                   collection_success, forecast_df, prev, recording>>

AnalyzerRaises(e) ==
    /\ pc = "Analyzing"
    /\ Propagates("run_analysis", e)

\* Variant: a forecast of None is treated as a failed stage.
ForecasterReturns_Gated(v) ==
    /\ pc = "Forecasting"
    /\ forecast_df' = v
    /\ obs' = Append(obs, Obs("run_forecasting", "return", v))
    /\ IF v = "None"
         THEN /\ messages' = Append(messages, GenericErrorMsg("no forecast"))
              /\ spinner' = 0
              /\ pc' = "Failed"
         ELSE /\ messages' = Append(messages, ForecastDoneMsg)
              /\ spinner' = 4
              /\ pc' = "Rendering"
    /\ UNCHANGED <<config, widgets, triggered, query, forecast_periods,
                   collection_success, analysis_success, enrichedFile, calls, prev, recording>>

\* Lines 69-79: run_forecasting returns v; whatever v is, the script goes on.
ForecasterReturns(v) ==
    /\ pc = "Forecasting"
    /\ forecast_df' = v
    /\ obs' = Append(obs, Obs("run_forecasting", "return", v))
    /\ messages' = Append(messages, ForecastDoneMsg)
    /\ spinner' = 4
    /\ pc' = "Rendering"
    /\ UNCHANGED <<config, widgets, triggered, query, forecast_periods,
                   collection_success, analysis_success, enrichedFile, calls, prev, recording>>

ForecasterRaises(e) ==
    /\ pc = "Forecasting"
    /\ Propagates("run_forecasting", e)

\* Variant: `except Exception` stands before `except FileNotFoundError`.
RenderHandler_GenericFirst(e) == GenericErrorMsg(e)

\* Lines 93-96: which except clause takes an exception raised in the try.
RenderHandler(e) ==
    IF e = "FileNotFoundError" THEN MissingFileMsg ELSE GenericErrorMsg(e)

\* Variant: the except clauses swallow the exception without a message.
RenderFails_Silent(e) ==
    /\ messages' = messages
    /\ spinner' = 0
    /\ pc' = "Failed"

\* An exception inside the try block of the render stage.
RenderFails(e) ==
    /\ messages' = Append(messages, RenderHandler(e))
    /\ spinner' = 0
    /\ pc' = "Failed"

\* What pd.read_csv / pd.to_datetime raise on file state f ("": nothing).
ReadError(f) ==
    CASE f = "absent"    -> "FileNotFoundError"
      [] f = "malformed" -> "ParserError"
      [] OTHER           -> ""

\* Variant: the Presenter is handed the dataset the Analyzer produced in
\* Stage 2, kept in memory, and the file is not read again.
RenderRead_UsesMemory ==
    /\ pc = "Rendering"
    /\ calls' = Append(calls, Call("generate_dashboard_figure", PresenterArgs("analyzed")))
    /\ pc' = "Presenting"
    /\ UNCHANGED <<config, widgets, triggered, query, forecast_periods, spinner,
                   collection_success, analysis_success, forecast_df, enrichedFile,
                   messages, obs, prev, recording>>

\* Lines 81-89: read the enriched file, convert the timestamps, call the
\* Presenter with what was read.
RenderRead ==
    /\ pc = "Rendering"
    /\ IF ReadError(enrichedFile) # ""
         THEN /\ obs' = Append(obs, Obs("read_csv", "raise", enrichedFile))
              /\ RenderFails(ReadError(enrichedFile))
              /\ UNCHANGED calls
         ELSE /\ obs' = Append(obs, Obs("read_csv", "return", enrichedFile))
              /\ calls' = Append(calls,
                     Call("generate_dashboard_figure", PresenterArgs(enrichedFile)))
              /\ UNCHANGED <<messages, spinner>>
              /\ pc' = "Presenting"
    /\ UNCHANGED <<config, widgets, triggered, query, forecast_periods,
                   collection_success, analysis_success, forecast_df, enrichedFile, prev, recording>>

\* Variant: st.pyplot(fig) (line 90) is missing.
PresenterReturns_NoPyplot(d) ==
    /\ pc = "Presenting"
    /\ IF d = "ok"
         THEN /\ obs' = Append(obs, Obs("generate_dashboard_figure", "return", "fig"))
              /\ messages' = Append(messages, DashboardDoneMsg)
              /\ spinner' = 0
              /\ pc' = "Done"
         ELSE /\ obs' = obs \o <<Obs("generate_dashboard_figure", "return", "fig"),
                                 Obs("st.pyplot", "raise", d)>>
              /\ RenderFails(d)
    /\ UNCHANGED <<config, widgets, triggered, query, forecast_periods,
                   collection_success, analysis_success, forecast_df, enrichedFile,
                   calls, prev, recording>>

\* Lines 84-91: generate_dashboard_figure returns a figure; st.pyplot shows
\* it (d = "ok") or raises d.
PresenterReturns(d) ==
    /\ pc = "Presenting"
    /\ IF d = "ok"
         THEN /\ obs' = Append(obs, Obs("generate_dashboard_figure", "return", "fig"))
              /\ messages' = messages \o <<ChartMsg, DashboardDoneMsg>>
              /\ spinner' = 0
              /\ pc' = "Done"
         ELSE /\ obs' = obs \o <<Obs("generate_dashboard_figure", "return", "fig"),
                                 Obs("st.pyplot", "raise", d)>>
              /\ RenderFails(d)
    /\ UNCHANGED <<config, widgets, triggered, query, forecast_periods,
                   collection_success, analysis_success, forecast_df, enrichedFile,
                   calls, prev, recording>>

\* Lines 84-96: generate_dashboard_figure raises e.
PresenterRaises(e) ==
    /\ pc = "Presenting"
    /\ obs' = Append(obs, Obs("generate_dashboard_figure", "raise", e))
    /\ RenderFails(e)
    /\ UNCHANGED <<config, widgets, triggered, query, forecast_periods,
                   collection_success, analysis_success, forecast_df, enrichedFile,
                   calls, prev, recording>>

\* Somebody outside the script removes or rewrites the enriched file while a
\* run is in progress.
ExternalChange(f) ==
    /\ pc \in Running
    /\ f # enrichedFile
    /\ enrichedFile' = f
    /\ UNCHANGED <<config, pc, widgets, triggered, query, forecast_periods, spinner,
                   collection_success, analysis_success, forecast_df,
                   messages, calls, obs, prev, recording>>

\* One step of a triggered run: a pending call returns or raises.
RunStep ==
    \/ \E v \in SuccessValues : CollectorReturns(v)
    \/ \E e \in Exceptions : CollectorRaises(e)
    \/ \E v \in SuccessValues : AnalyzerReturns(v)
    \/ \E e \in Exceptions : AnalyzerRaises(e)
    \/ \E v \in ForecastValues : ForecasterReturns(v)
    \/ \E e \in Exceptions : ForecasterRaises(e)
    \/ RenderRead
    \/ \E d \in {"ok"} \cup Exceptions : PresenterReturns(d)
    \/ \E e \in Exceptions : PresenterRaises(e)

Next ==
    \/ Boot
    \/ \E t \in Topics : EditTopic(t)
    \/ \E h \in Periods : SelectPeriod(h)
    \/ ClickButton
    \/ RunStep
    \/ \E f \in FileStates \ {"analyzed"} : ExternalChange(f)

Spec == Init /\ [][Next]_vars

\* The same program, with finished runs remembered.
SpecRecording == InitRecording /\ [][Next]_vars

\* Every pending collaborator call returns or raises.
FairSpec == Spec /\ WF_vars(RunStep)

\* ---------------------------------------------------------------- properties
ReturnedValue(fn, vs) ==
    \E i \in 1..Len(obs) :
        obs[i].stage = fn /\ obs[i].kind = "return" /\ obs[i].value \in vs

CollectorSignalledFailure == ReturnedValue("run_collection", {"False", "None"})
CollectorSucceeded        == ReturnedValue("run_collection", {"True"})
AnalyzerSignalledFailure  == ReturnedValue("run_analysis", {"False", "None"})
AnalyzerSucceeded         == ReturnedValue("run_analysis", {"True"})

GenericErrorShown ==
    \E i \in 1..Len(messages) :
        messages[i].text = "An error occurred while creating the dashboard"

\* C1: in a triggered run in which run_collection signalled failure, neither
\* run_analysis nor run_forecasting nor generate_dashboard_figure is invoked,
\* whatever the topic and the forecast period.
C1_CollectorFailureHalts ==
    (triggered /\ CollectorSignalledFailure) =>
        /\ ~Invoked("run_analysis")
        /\ ~Invoked("run_forecasting")
        /\ ~Invoked("generate_dashboard_figure")

C1_Witness ==
    /\ triggered /\ pc = "Failed" /\ CollectorSignalledFailure
    /\ query # QUERY_TOPIC /\ forecast_periods = 30

\* C2: in a triggered run in which run_collection succeeded and run_analysis
\* signalled failure, neither run_forecasting nor generate_dashboard_figure
\* is invoked.
C2_AnalyzerFailureHalts ==
    (triggered /\ CollectorSucceeded /\ AnalyzerSignalledFailure) =>
        /\ ~Invoked("run_forecasting")
        /\ ~Invoked("generate_dashboard_figure")

C2_Witness ==
    /\ triggered /\ pc = "Failed" /\ CollectorSucceeded /\ AnalyzerSignalledFailure
    /\ forecast_periods = 15

\* C3: in a triggered run in which run_collection and run_analysis both
\* signalled success, run_forecasting is invoked exactly once, with the
\* enriched file path, the configured positive and negative thresholds, the
\* configured Slack webhook and the selected period, one of 7, 15, 30.
C3_ForecasterInvokedOnce ==
    (triggered /\ CollectorSucceeded /\ AnalyzerSucceeded) =>
        /\ TimesInvoked("run_forecasting") = 1
        /\ \A i \in 1..Len(calls) :
             calls[i].fn = "run_forecasting" =>
                /\ calls[i].args.input_filepath = "ANALYZED_NEWS_FILE"
                /\ calls[i].args.pos_threshold = "POSITIVE_THRESHOLD"
                /\ calls[i].args.neg_threshold = "NEGATIVE_THRESHOLD"
                /\ calls[i].args.slack_webhook_url = "SLACK_WEBHOOK_URL"
                /\ calls[i].args.periods = forecast_periods
                /\ calls[i].args.periods \in {7, 15, 30}

C3_Witness ==
    /\ triggered /\ CollectorSucceeded /\ AnalyzerSucceeded
    /\ Returned("run_forecasting") /\ forecast_periods = 30
    /\ TimesInvoked("run_forecasting") = 1

EnrichedFileAbsentAtRender ==
    \E i \in 1..Len(obs) : obs[i].stage = "read_csv" /\ obs[i].value = "absent"

\* C4: a triggered run that reaches the render stage and finds the enriched
\* file absent when it reads it ends Failed with the missing-file message,
\* without the generic render error, the chart or the final success message.
C4_MissingFileState ==
    (triggered /\ EnrichedFileAbsentAtRender) =>
        /\ pc = "Failed"
        /\ Shown(MissingFileMsg)
        /\ ~GenericErrorShown
        /\ ~Shown(ChartMsg)
        /\ ~Shown(DashboardDoneMsg)
        /\ ~Invoked("generate_dashboard_figure")

C4_Witness ==
    /\ triggered /\ EnrichedFileAbsentAtRender /\ pc = "Failed"
    /\ AnalyzerSucceeded /\ Returned("run_forecasting")

C6_StagePrefix ==
    /\ Len(calls) <= Len(StageOrder)
    /\ \A i \in 1..Len(calls) :
         /\ i <= Len(StageOrder)
         /\ calls[i].fn = StageOrder[i]
         /\ i > 1 => Returned(StageOrder[i - 1])
    /\ \A i \in 1..Len(StageOrder) : TimesInvoked(StageOrder[i]) <= 1
    /\ triggered => Len(calls) >= 1

C6_Witness ==
    /\ triggered /\ pc = "Done" /\ Len(calls) = 4
    /\ calls[4].fn = "generate_dashboard_figure"

RunOver == triggered /\ pc \notin Running

EndedDone == pc = "Done" /\ Shown(ChartMsg) /\ ErrorsShown = {}

EndedFailed == pc = "Failed" /\ ErrorsShown # {} /\ ~Shown(ChartMsg)

\* The claim of C7 as the specification words it: a triggered run that is
\* over is Done with the chart displayed or Failed with an error displayed.
C7_OnlyDoneOrFailed == RunOver => (EndedDone \/ EndedFailed)

EarlyStageRaised ==
    \/ Raised("run_collection")
    \/ Raised("run_analysis")
    \/ Raised("run_forecasting")

EndedUncaught ==
    /\ pc = "Crashed" /\ EarlyStageRaised
    /\ ErrorsShown = {} /\ ~Shown(ChartMsg)

\* C7 (amended): every triggered run in which each collaborator call returns
\* or raises eventually ends; it ends Done with the chart displayed, or Failed
\* with an error message displayed, unless run_collection, run_analysis or
\* run_forecasting raised, in which case it ends with the exception uncaught
\* and neither a chart nor an error message of the script displayed; and no
\* run invokes a stage a second time.
C7_RunEnds ==
    /\ [](RunOver => \/ (EndedDone /\ ~EarlyStageRaised)
                     \/ (EndedFailed /\ ~EarlyStageRaised)
                     \/ EndedUncaught)
    /\ [](\A i \in 1..Len(StageOrder) : TimesInvoked(StageOrder[i]) <= 1)
    /\ (pc \in Running) ~> (pc \in Finished)

C7_Witness == RunOver /\ EndedFailed /\ Invoked("generate_dashboard_figure")

FreshRunStart ==
    /\ calls = <<Call("run_collection", CollectorArgs)>>
    /\ obs = <<>>
    /\ messages = <<TitleMsg>>
    /\ collection_success = "unset"
    /\ analysis_success = "unset"
    /\ forecast_df = "unset"

SameAsPreviousRun ==
    /\ prev # <<>>
    /\ prev[1].query = query
    /\ prev[1].periods = forecast_periods
    /\ prev[1].obs = obs

\* C8: a triggered run starts with nothing of an earlier run (no calls, no
\* results, no messages, locals unset), and when a finished run had the same
\* topic and period as the triggered run before it and the collaborators
\* handed back the same things, it made the same calls with the same
\* arguments, showed the same messages and ended in the same state.
C8_RunsIndependent ==
    /\ (triggered /\ obs = <<>>) => (pc = "Collecting" /\ FreshRunStart)
    /\ (triggered /\ pc \in Finished /\ SameAsPreviousRun) =>
          /\ prev[1].calls = calls
          /\ prev[1].outcome = pc
          /\ prev[1].messages = messages

C8_Witness ==
    /\ triggered /\ pc = "Done" /\ SameAsPreviousRun
    /\ prev[1].outcome = "Done" /\ Len(prev[1].calls) = 4

FileRead == \E i \in 1..Len(obs) : obs[i].stage = "read_csv"

\* C9: a script run in which the button was not pressed (and that got past
\* the configuration import) invokes no collaborator, reads no dataset file
\* and ends showing the static prompt; the static prompt is never on the page
\* of a run in which the button was pressed.
C9_NoTriggerNoWork ==
    /\ ~triggered => (calls = <<>> /\ obs = <<>> /\ ~FileRead /\ pc \notin Running)
    /\ (~triggered /\ pc = "Idle") => Shown(PromptMsg)
    /\ Shown(PromptMsg) => (~triggered /\ pc = "Idle")

C9_Witness ==
    /\ pc = "Idle" /\ ~triggered /\ Shown(PromptMsg)
    /\ query # QUERY_TOPIC /\ forecast_periods = 15

\* C10: the chart is on the page only in a run in which run_collection and
\* run_analysis signalled success and run_forecasting returned; a run that a
\* stage failure halted shows no chart.
C10_ChartOnlyAfterSuccess ==
    /\ Shown(ChartMsg) =>
          /\ triggered
          /\ CollectorSucceeded
          /\ AnalyzerSucceeded
          /\ Returned("run_forecasting")
    /\ (CollectorSignalledFailure \/ AnalyzerSignalledFailure \/ EarlyStageRaised)
          => ~Shown(ChartMsg)

C10_Witness ==
    /\ Shown(ChartMsg) /\ pc = "Done"
    /\ forecast_df = "None" /\ enrichedFile = "edited"


SuccessShown(ms) == \E i \in 1..Len(messages) : messages[i] \in ms

\* C11: when run_collection or run_analysis signals failure the run is
\* Failed with exactly one error message on the page, the one of the stage
\* that failed (for the Collector the one naming the API keys and the query
\* term), and with no success message of that stage or of a later one.
C11_OneStageError ==
    /\ (triggered /\ CollectorSignalledFailure) =>
          /\ pc = "Failed"
          /\ Cardinality(ErrorsShown) = 1
          /\ Shown(CollectionFailedMsg)
          /\ messages[Len(messages)].detail = "API keys, query term"
          /\ ~SuccessShown({CollectionDoneMsg, AnalysisDoneMsg, ForecastDoneMsg,
                            DashboardDoneMsg})
    /\ (triggered /\ AnalyzerSignalledFailure) =>
          /\ pc = "Failed"
          /\ Cardinality(ErrorsShown) = 1
          /\ Shown(AnalysisFailedMsg)
          /\ ~SuccessShown({AnalysisDoneMsg, ForecastDoneMsg, DashboardDoneMsg})

C11_Witness ==
    /\ triggered /\ AnalyzerSignalledFailure /\ pc = "Failed"
    /\ analysis_success = "None" /\ Shown(AnalysisFailedMsg)

ChartsShown == {i \in 1..Len(messages) : messages[i] = ChartMsg}

NothingRaised == \A i \in 1..Len(obs) : obs[i].kind = "return"

\* The scenario of C12: every stage succeeded, the Forecaster handed back a
\* forecast, the enriched file was read as a well-formed dataset, the
\* Presenter handed back a figure and st.pyplot displayed it.
AllStagesSucceeded ==
    /\ triggered
    /\ CollectorSucceeded
    /\ AnalyzerSucceeded
    /\ ReturnedValue("run_forecasting", {"forecast"})
    /\ ReturnedValue("read_csv", {"analyzed", "edited"})
    /\ ReturnedValue("generate_dashboard_figure", {"fig"})
    /\ NothingRaised

\* C12: for every topic and every period of 7, 15, 30, a run in which
\* run_collection and run_analysis succeed, run_forecasting returns a
\* forecast, the enriched file is present and well-formed and the figure the
\* Presenter returns is displayed ends Done with exactly one chart and no
\* error message on the page.
C12_HappyPath ==
    AllStagesSucceeded =>
        /\ pc = "Done"
        /\ Cardinality(ChartsShown) = 1
        /\ ErrorsShown = {}
        /\ Shown(DashboardDoneMsg)

C12_Witness ==
    /\ AllStagesSucceeded /\ pc = "Done"
    /\ query # QUERY_TOPIC /\ forecast_periods = 15


\* An exception was raised inside the try block of the render stage by
\* anything but the enriched file being absent.
RenderRaisedOther ==
    \E i \in 1..Len(obs) :
        /\ obs[i].kind = "raise"
        /\ obs[i].stage \in {"read_csv", "generate_dashboard_figure", "st.pyplot"}
        /\ ~(obs[i].stage = "read_csv" /\ obs[i].value = "absent")

\* C13: an exception of the render stage other than a missing dataset file
\* (from reading the file, converting the timestamps, the Presenter or the
\* display of the figure) is caught and leaves the run Failed with the
\* generic error message, without the missing-file message and without the
\* final success message.
C13_OtherErrorsGeneric ==
    (triggered /\ RenderRaisedOther) =>
        /\ pc = "Failed"
        /\ GenericErrorShown
        /\ ~Shown(MissingFileMsg)
        /\ ~Shown(DashboardDoneMsg)

\* C14: when run_forecasting raises, the script catches nothing: the run is
\* over with the Presenter not invoked, the enriched file not read, no Step 3
\* success message and no error message of the script on the page.
C14_ForecasterErrorUncaught ==
    (triggered /\ Raised("run_forecasting")) =>
        /\ pc = "Crashed"
        /\ ~Invoked("generate_dashboard_figure")
        /\ ~FileRead
        /\ ~Shown(ForecastDoneMsg)
        /\ ErrorsShown = {}
        /\ ~Shown(ChartMsg)

C14_Witness ==
    /\ triggered /\ Raised("run_forecasting") /\ pc = "Crashed"
    /\ Shown(AnalysisDoneMsg)


PresenterCalls == {i \in 1..Len(calls) : calls[i].fn = "generate_dashboard_figure"}

\* C16: once run_forecasting has returned, whatever it returned, the Step 3
\* success message is on the page, the script has gone on to the render stage
\* (a later failure is one of the render stage), and the Presenter, if
\* invoked, got the returned value unchanged.
C16_ForecastNotGated ==
    \A i \in 1..Len(obs) :
        (triggered /\ obs[i].stage = "run_forecasting" /\ obs[i].kind = "return") =>
            /\ Shown(ForecastDoneMsg)
            /\ forecast_df = obs[i].value
            /\ pc \in {"Rendering", "Presenting", "Done", "Failed"}
            /\ pc # "Rendering" => FileRead
            /\ \A j \in PresenterCalls : calls[j].args.forecast_df = obs[i].value

C16_Witness ==
    /\ triggered /\ ReturnedValue("run_forecasting", {"None"})
    /\ PresenterCalls # {}
    /\ \A j \in PresenterCalls : calls[j].args.forecast_df = "None"
    /\ pc = "Done"

ReadAfterForecast ==
    \E i, j \in 1..Len(obs) :
        /\ i < j
        /\ obs[i].stage = "run_forecasting" /\ obs[i].kind = "return"
        /\ obs[j].stage = "read_csv"

\* C17: the dataset handed to the Presenter is what the enriched file holds
\* when the render stage reads it, after run_forecasting has returned, not
\* what the Analyzer produced in Stage 2: the step that leaves the start of
\* the render stage passes on the file's content of that moment, and fails
\* when the file is gone by then.
C17_RenderReadsDisk ==
    /\ [][(pc = "Rendering" /\ pc' = "Presenting") =>
             /\ Returned("run_forecasting")
             /\ calls'[Len(calls')].fn = "generate_dashboard_figure"
             /\ calls'[Len(calls')].args.analyzed_df = enrichedFile]_vars
    /\ [][(pc = "Rendering" /\ pc' # "Rendering" /\ enrichedFile = "absent") =>
             pc' = "Failed"]_vars
    /\ [](PresenterCalls # {} => ReadAfterForecast)

C17_Witness ==
    /\ triggered /\ AnalyzerSucceeded /\ PresenterCalls # {}
    /\ \A j \in PresenterCalls : calls[j].args.analyzed_df = "edited"


DatasetPaths == {"RAW_NEWS_FILE", "ANALYZED_NEWS_FILE"}

\* Which calls get which dataset path, and in which argument.
PathsHandedOut ==
    \A i \in 1..Len(calls) :
        /\ calls[i].fn = "run_collection" =>
              /\ calls[i].args.output_filepath = "RAW_NEWS_FILE"
              /\ {calls[i].args.newsapi_key, calls[i].args.gnews_key,
                  calls[i].args.twitter_token} \cap DatasetPaths = {}
        /\ calls[i].fn = "run_analysis" =>
              /\ calls[i].args.input = "RAW_NEWS_FILE"
              /\ calls[i].args.output = "ANALYZED_NEWS_FILE"
        /\ calls[i].fn = "run_forecasting" =>
              /\ calls[i].args.input_filepath = "ANALYZED_NEWS_FILE"
              /\ {calls[i].args.pos_threshold, calls[i].args.neg_threshold,
                  calls[i].args.slack_webhook_url} \cap DatasetPaths = {}
        /\ calls[i].fn = "generate_dashboard_figure" =>
              {calls[i].args.analyzed_df, calls[i].args.forecast_df} \cap DatasetPaths = {}

\* A step of the script itself, as opposed to a change made from outside.
ScriptStep == pc' # pc \/ messages' # messages \/ calls' # calls

\* C18: the script writes neither dataset file: the raw path goes to
\* run_collection as output and to run_analysis as input only, the enriched
\* path to run_analysis as output and to run_forecasting as input only, and
\* no step of the script other than the return of run_analysis changes the
\* enriched file, so a run halted at Stage 1, and the read of the render
\* stage, leave it as it was.
C18_SequencerWritesNothing ==
    /\ [](PathsHandedOut)
    /\ [][(ScriptStep /\ pc # "Analyzing") => enrichedFile' = enrichedFile]_vars

C18_Witness ==
    /\ triggered /\ CollectorSignalledFailure /\ pc = "Failed"
    /\ enrichedFile = "edited" /\ Len(calls) = 1

\* C19: no triggered run shows the chart or the final success message
\* together with an error message, and none shows more than one error.
C19_ChartXorError ==
    triggered =>
        /\ Cardinality(ErrorsShown) <= 1
        /\ (Shown(ChartMsg) \/ Shown(DashboardDoneMsg)) => ErrorsShown = {}

C19_Witness ==
    /\ triggered /\ pc = "Failed" /\ Shown(MissingFileMsg)
    /\ Cardinality(ErrorsShown) = 1 /\ Shown(ForecastDoneMsg)

\* The topic and period each call of the run was given are those of the
\* controls.
ArgsConsistent ==
    \A i \in 1..Len(calls) :
        /\ calls[i].fn \in {"run_collection", "generate_dashboard_figure"} =>
              calls[i].args.query = query
        /\ calls[i].fn \in {"run_forecasting", "generate_dashboard_figure"} =>
              calls[i].args.periods = forecast_periods

\* C20: topic and period do not change while a run is in progress, every
\* call of the run is given those values (so the Collector's topic is the
\* Presenter's and the Forecaster's period is the Presenter's), and the
\* period is 7 until the operator picks another one.
C20_TopicAndPeriodFixed ==
    /\ [](triggered => ArgsConsistent)
    /\ [][(pc \in Running) =>
             (query' = query /\ forecast_periods' = forecast_periods)]_vars
    /\ [](pc = "Boot" => forecast_periods = 7)
    /\ [][(forecast_periods' # forecast_periods) =>
             (pc \in Interactive /\ ~triggered' /\ pc' = "Idle")]_vars

C20_Witness ==
    /\ triggered /\ pc = "Done" /\ query # QUERY_TOPIC /\ forecast_periods = 30
    /\ calls[1].args.query = calls[4].args.query
    /\ calls[3].args.periods = calls[4].args.periods

====
